---- MODULE Spec2Model ----
(***************************************************************************)
(* Model of the news ingestion pipeline of short-samachaar:                *)
(*   server/scripts/scheduler.py  (fetch, render, normalise, index, sweep) *)
(*   server/models/article.py     (the Article record)                     *)
(*   server/config/basic_config.py (retention horizon)                     *)
(*                                                                         *)
(* Text that the code handles character by character (the article link)   *)
(* is a sequence of one-character strings.  A Python dict is a function    *)
(* whose DOMAIN is the set of its keys.  Time is counted in days.          *)
(***************************************************************************)
EXTENDS Integers, Sequences, FiniteSets, TLC

\* ------------------------------------------------------------------ bounds
MaxFeedLen == 3
MaxNow == 10

\* --------------------------------------------------------------- constants
\* Settings.ARTICLE_RETENTION_DAYS
ARTICLE_RETENTION_DAYS == 7

\* ------------------------------------------------------------ text helpers
\* The literals of the three str.replace calls that build the document id.
HTTPS == <<"h", "t", "t", "p", "s", ":", "/", "/">>
HTTP == <<"h", "t", "t", "p", ":", "/", "/">>
SLASH == <<"/">>
UNDERSCORE == <<"_">>
EMPTY == <<>>

StartsWith(s, p) ==
    /\ Len(s) >= Len(p)
    /\ SubSeq(s, 1, Len(p)) = p

\* Python str.replace(old, new): every non-overlapping occurrence of old,
\* scanning from the left.
RECURSIVE Replace(_, _, _)
Replace(s, old, new) ==
    IF Len(s) < Len(old) \/ Len(old) = 0 THEN s
    ELSE IF StartsWith(s, old)
         THEN new \o Replace(SubSeq(s, Len(old) + 1, Len(s)), old, new)
         ELSE <<Head(s)>> \o Replace(Tail(s), old, new)

\* doc_id of index_article_in_elasticsearch.
DocId(link) ==
    Replace(Replace(Replace(link, HTTPS, EMPTY), HTTP, EMPTY), SLASH, UNDERSCORE)

\* pydantic HttpUrl, the type of Article.link: scheme http or https and a
\* non-empty host.
IsHttpUrlAny(link) == TRUE
IsHttpUrl(link) ==
    \/ StartsWith(link, HTTPS) /\ Len(link) > Len(HTTPS) /\ link[Len(HTTPS) + 1] # "/"
    \/ StartsWith(link, HTTP) /\ Len(link) > Len(HTTP) /\ link[Len(HTTP) + 1] # "/"

\* ------------------------------------------------------------------ inputs
\* Links the feed may carry.  The first three differ as links and share one
\* document id; FileLink is a URL a browser renders and HttpUrl rejects.
LinkAB == HTTPS \o <<"a", "/", "b">>
LinkABplain == HTTP \o <<"a", "/", "b">>
LinkAuB == HTTPS \o <<"a", "_", "b">>
LinkC == HTTPS \o <<"c">>
LinkD == HTTPS \o <<"d">>
FileLink == <<"f", "i", "l", "e", ":", "/", "/", "/", "a">>
Links == {LinkAB, LinkABplain, LinkAuB, LinkC, LinkD, FileLink}

\* pubDate values of the feed: days, and one string that is no ISO date.
PubDates == {2, 4, 5, 6}
BadDate == -1

\* Python None, for values that are strings otherwise.
None == "None"

\* An optional text (the return value of extract_content_with_selenium).
NoContent == [isNone |-> TRUE, text |-> ""]
Str(t) == [isNone |-> FALSE, text |-> t]

\* What get_text(strip=True) can return for a rendered page.
Texts == {"", "x"}

\* Feed stubs: dicts of the "results" array.  Stub(l, d) carries every key;
\* the others lack a key or carry a pubDate that does not parse.
Stub(l, d) ==
    [title |-> "t", link |-> l, description |-> "d", pubDate |-> d,
     category |-> <<"top">>]
NoLinkStub == [title |-> "t", description |-> "d", pubDate |-> 5, category |-> <<"top">>]
NoDateStub == [title |-> "t", link |-> LinkC, description |-> "d", category |-> <<"top">>]
NoDescriptionStub == [title |-> "t", link |-> LinkC, pubDate |-> 5, category |-> <<"top">>]
BadDateStub == Stub(LinkC, BadDate)
Stubs ==
    {Stub(LinkAB, 5), Stub(LinkABplain, 5), Stub(LinkAuB, 5), Stub(FileLink, 5),
     NoLinkStub, NoDateStub, NoDescriptionStub, BadDateStub}

RECURSIVE SeqsUpTo(_, _)
SeqsUpTo(S, n) ==
    IF n = 0 THEN {<<>>}
    ELSE LET shorter == SeqsUpTo(S, n - 1)
         IN shorter \cup {Append(q, x) : q \in {t \in shorter : Len(t) = n - 1}, x \in S}
Feeds == SeqsUpTo(Stubs, MaxFeedLen)

\* What the feed endpoint can answer.
Responses ==
    {[kind |-> "network_error", body |-> [status |-> "none"]],
     [kind |-> "http_error", body |-> [status |-> "error"]],
     [kind |-> "bad_json", body |-> [status |-> "none"]],
     [kind |-> "json", body |-> [status |-> "error"]]}
    \cup {[kind |-> "json", body |-> [status |-> "success", results |-> f]] : f \in Feeds}

\* What the browser can do with one page.
RenderOutcomes ==
    {[kind |-> "raises", text |-> ""], [kind |-> "no_article", text |-> ""]}
    \cup {[kind |-> "text", text |-> t] : t \in Texts}

\* ------------------------------------------------------- pure code paths
\* dict.get(key, default)
Get(item, key, default) == IF key \in DOMAIN item THEN item[key] ELSE default

\* fetch_news_metadata_from_api: every failure and a body without
\* "results" give the empty list.
FetchResult(resp) ==
    IF resp.kind # "json" THEN <<>>
    ELSE IF "results" \in DOMAIN resp.body THEN resp.body.results
    ELSE <<>>

\* Exception classes raised in the model; all derive from Exception.
Exceptions ==
    {"KeyError", "ValueError", "ValidationError", "WebDriverException", "AttributeError",
     "ConnectionError", "HTTPError", "JSONDecodeError", "TransportError"}

\* What the try block of fetch_news_metadata_from_api raises: requests.get
\* on a network error, raise_for_status on a non-2xx status, response.json
\* on a body that is no JSON.
FetchError(resp) ==
    IF resp.kind = "network_error" THEN "ConnectionError"
    ELSE IF resp.kind = "http_error" THEN "HTTPError"
    ELSE IF resp.kind = "bad_json" THEN "JSONDecodeError"
    ELSE None

\* `except Exception` of fetch_news_metadata_from_api.
FetchCatchesConnectionOnly(e) == e = "ConnectionError"
FetchCatches(e) == e \in Exceptions

\* The exception that leaves fetch_news_metadata_from_api, or None.
FetchEscapes(resp) ==
    IF FetchError(resp) # None /\ ~FetchCatches(FetchError(resp))
    THEN FetchError(resp) ELSE None

\* `if not news_items` of main.
NoItemsNever(items) == FALSE
NoItems(items) == Len(items) = 0

\* The step of `for item in news_items` from one position to the next.
NextPosSkip(p) == p + 2
NextPos(p) == p + 1

\* `except Exception` of extract_content_with_selenium.
ExtractCatches(e) == e \in Exceptions

\* extract_content_with_selenium(url, driver): [exc, content].  driver.get
\* on None raises AttributeError; the browser may raise (a timeout among
\* others), show no article element, or give the article's text.
Extract(r, d) ==
    LET e == IF d = None THEN "AttributeError"
             ELSE IF r.kind = "raises" THEN "WebDriverException" ELSE None
    IN IF e # None
       THEN IF ExtractCatches(e) THEN [exc |-> None, content |-> NoContent]
            ELSE [exc |-> e, content |-> NoContent]
       ELSE IF r.kind = "no_article" THEN [exc |-> None, content |-> NoContent]
       ELSE [exc |-> None, content |-> Str(r.text)]

\* `not content`
FalsyAlwaysFalse(c) == FALSE
Falsy(c) == c.isNone \/ c.text = ""

\* Article(...) of main: the arguments are evaluated left to right, then
\* pydantic validates the fields.  [exc, arts]: arts holds the Article built.
NewArticle(item, content) ==
    IF content.isNone THEN [exc |-> "ValidationError", arts |-> {}]
    ELSE IF "title" \notin DOMAIN item THEN [exc |-> "KeyError", arts |-> {}]
    ELSE IF "pubDate" \notin DOMAIN item THEN [exc |-> "KeyError", arts |-> {}]
    ELSE IF item.pubDate = BadDate THEN [exc |-> "ValueError", arts |-> {}]
    ELSE IF "category" \notin DOMAIN item THEN [exc |-> "KeyError", arts |-> {}]
    ELSE IF ~IsHttpUrl(item.link) THEN [exc |-> "ValidationError", arts |-> {}]
    ELSE [exc |-> None,
          arts |-> {[title |-> item.title,
                     description |-> Get(item, "description", ""),
                     content |-> content.text,
                     publish_date |-> item.pubDate,
                     category |-> item.category,
                     link |-> item.link,
                     sentiment |-> None]}]

\* The body of the per-item try block of main for one item, one browser
\* behaviour and the driver: [exc, resolved, content, arts].
ItemBody(item, r, d) ==
    IF "link" \notin DOMAIN item
    THEN [exc |-> "KeyError", resolved |-> FALSE, content |-> NoContent, arts |-> {}]
    ELSE LET ex == Extract(r, d)
         IN IF ex.exc # None
            THEN [exc |-> ex.exc, resolved |-> TRUE, content |-> NoContent, arts |-> {}]
            ELSE IF Falsy(ex.content)
            THEN [exc |-> None, resolved |-> TRUE, content |-> ex.content, arts |-> {}]
            ELSE LET na == NewArticle(item, ex.content)
                 IN [exc |-> na.exc, resolved |-> TRUE, content |-> ex.content,
                     arts |-> na.arts]

\* `except Exception` of the per-item try block of main.
ItemCatchesKeyErrorOnly(e) == e = "KeyError"
ItemCatches(e) == e \in Exceptions

\* `if driver: driver.quit()` of the finally block: the number of quits.
QuitNever(d, q) == q
Quit(d, q) == IF d # None THEN q + 1 ELSE q

\* `if not driver: return`
DriverMissingNever(d) == FALSE
DriverMissing(d) == d = None

\* es_client.index(index="articles", id=doc_id, document=article_dict):
\* insert or replace the document stored under doc_id.
Put(idx, id, doc) ==
    [k \in DOMAIN idx \cup {id} |-> IF k = id THEN doc ELSE idx[k]]

\* The range query {"publish_date": {"lt": cutoff}} of delete_by_query.
OlderThanInclusive(doc, cutoff) == doc.publish_date <= cutoff
OlderThan(doc, cutoff) == doc.publish_date < cutoff

\* es_client.delete_by_query: the index without the documents matched.
DeleteOlderThan(idx, cutoff) ==
    [k \in {j \in DOMAIN idx : ~OlderThan(idx[j], cutoff)} |-> idx[k]]

\* seven_days_ago of cleanup_old_articles: datetime.now().
SweepCutoff(t) == t

\* `except Exception` of index_article_in_elasticsearch.
IndexCatchesNothing(e) == FALSE
IndexCatches(e) == e \in Exceptions

\* index_article_in_elasticsearch(article) on index idx, with the transport
\* working or not: the try block calls es_client.index once; a raise is
\* caught and gives False.  [index, attempts, returned, exc].
IndexCall(idx, a, transportOk) ==
    IF transportOk
    THEN [index |-> Put(idx, DocId(a.link), a), attempts |-> 1, returned |-> "True",
          exc |-> None]
    ELSE IF IndexCatches("TransportError")
    THEN [index |-> idx, attempts |-> 1, returned |-> "False", exc |-> None]
    ELSE [index |-> idx, attempts |-> 1, returned |-> None, exc |-> "TransportError"]

\* Articles of every publish date, for the index store on its own.
StoreArticles ==
    {[title |-> "t", description |-> "d", content |-> "x", publish_date |-> d,
      category |-> <<"top">>, link |-> l, sentiment |-> None] :
        l \in {LinkAB, LinkC, LinkD}, d \in PubDates}

\* ------------------------------------------------------------------- state
VARIABLES
    pc,          \* where main is: idle, init, loop, finally, done
    news_items,  \* main: the list fetch_news_metadata_from_api returned
    driver,      \* main: the Selenium driver, or None
    pos,         \* main: position of the next item of the for loop
    log,         \* per item handled: what the loop body did
    quits,       \* number of driver.quit() calls
    raised,      \* the exception that left main, or None
    articles,    \* the Article objects built so far
    index,       \* the "articles" index: doc_id -> document
    upserted,    \* per link: the content of its latest successful index call
                 \* ({} when there was none, or a sweep has removed the link)
    now,         \* the clock, in days
    lastSweep,   \* what cleanup_old_articles did, when it was the last call made
    lastIndex,   \* what index_article_in_elasticsearch did, when it was the
                 \* last call made; kept for the calls made outside a run of main
    response     \* what the feed endpoint answered to the fetch of this run

vars ==
    <<pc, news_items, driver, pos, log, quits, raised, articles, index, upserted,
      now, lastSweep, lastIndex, response>>
runVars == <<pc, news_items, driver, pos, log, quits, raised>>

EmptyIndex == [k \in {} |-> None]
NoSweep == [calls |-> 0, ok |-> FALSE, cutoff |-> 0, removed |-> {}, kept |-> {}]
NoIndexCall ==
    [calls |-> 0, attempts |-> 0, returned |-> None, exc |-> None, afterFailure |-> FALSE]
NoResponse == [kind |-> "none", body |-> [status |-> "none"]]

Init ==
    /\ pc = "idle"
    /\ news_items = <<>>
    /\ driver = None
    /\ pos = 1
    /\ log = <<>>
    /\ quits = 0
    /\ raised = None
    /\ articles = {}
    /\ index = EmptyIndex
    /\ upserted = [l \in Links |-> {}]
    /\ now = 0
    /\ lastSweep = NoSweep
    /\ lastIndex = NoIndexCall
    /\ response = NoResponse

\* ------------------------------------------------------------------- main
\* news_items = fetch_news_metadata_from_api(); if not news_items: return
\* An exception that leaves the fetch leaves main.
Fetch ==
    /\ pc = "idle"
    /\ \E resp \in Responses :
        /\ response' = resp
        /\ raised' = FetchEscapes(resp)
        /\ news_items' = IF FetchEscapes(resp) # None THEN <<>> ELSE FetchResult(resp)
        /\ pc' = IF FetchEscapes(resp) # None \/ NoItems(FetchResult(resp))
                  THEN "done" ELSE "init"
    /\ lastIndex' = NoIndexCall
    /\ UNCHANGED <<driver, pos, log, quits, articles, index, upserted, now, lastSweep>>

\* driver = initialize_selenium_driver(); if not driver: return
\* webdriver.Chrome either returns a driver or raises, and a raise gives None.
InitDriver ==
    /\ pc = "init"
    /\ \E d \in {"chrome", None} :
        /\ driver' = d
        /\ pc' = IF DriverMissing(d) THEN "done"
                  ELSE IF Len(news_items) = 0 THEN "finally" ELSE "loop"
    /\ lastIndex' = NoIndexCall
    /\ UNCHANGED <<news_items, pos, log, quits, raised, articles, index, upserted, now,
                   lastSweep, response>>

\* One iteration of `for item in news_items`: the try body and its handler.
\* An exception the handler does not catch ends the loop and is pending
\* while the finally block runs.
ProcessItem ==
    /\ pc = "loop"
    /\ pos <= Len(news_items)
    /\ \E r \in RenderOutcomes :
        LET b == ItemBody(news_items[pos], r, driver)
            caught == b.exc = None \/ ItemCatches(b.exc)
        IN /\ log' = Append(log, [pos |-> pos, exc |-> b.exc, resolved |-> b.resolved,
                                   content |-> b.content, built |-> b.arts # {},
                                   driver |-> driver, quits |-> quits])
           /\ articles' = articles \cup b.arts
           /\ raised' = IF caught THEN None ELSE b.exc
           /\ pos' = NextPos(pos)
           /\ pc' = IF ~caught \/ NextPos(pos) > Len(news_items) THEN "finally" ELSE "loop"
    /\ lastIndex' = NoIndexCall
    /\ UNCHANGED <<news_items, driver, quits, index, upserted, now, lastSweep, response>>

\* finally: if driver: driver.quit()
Finally ==
    /\ pc = "finally"
    /\ quits' = Quit(driver, quits)
    /\ pc' = "done"
    /\ lastIndex' = NoIndexCall
    /\ UNCHANGED <<news_items, driver, pos, log, raised, articles, index, upserted, now,
                   lastSweep, response>>

\* ------------------------------------------------------------ index store
\* index_article_in_elasticsearch(article): the write succeeds and the call
\* returns True, or something in the try block raises and it returns False.
IndexArticle ==
    /\ \E a \in articles, ok \in BOOLEAN :
        LET c == IndexCall(index, a, ok)
        IN /\ index' = c.index
           /\ upserted' = IF ok THEN [upserted EXCEPT ![a.link] = {a.content}] ELSE upserted
           /\ lastIndex' =
                IF pc = "idle"
                THEN [calls |-> 1, attempts |-> c.attempts, returned |-> c.returned,
                      exc |-> c.exc,
                      afterFailure |-> lastIndex.calls = 1 /\ lastIndex.returned # "True"]
                ELSE NoIndexCall
    /\ lastSweep' = NoSweep
    /\ UNCHANGED <<runVars, articles, now, response>>

\* cleanup_old_articles(): delete_by_query succeeds, or raises and the
\* exception is logged.
CleanupOldArticles ==
    /\ \E ok \in BOOLEAN :
        LET cutoff == SweepCutoff(now)
            after == IF ok THEN DeleteOlderThan(index, cutoff) ELSE index
        IN /\ index' = after
           /\ upserted' =
                [l \in Links |->
                    IF ok /\ ~\E k \in DOMAIN after : after[k].link = l
                    THEN {} ELSE upserted[l]]
           /\ lastSweep' =
                [calls |-> 1, ok |-> ok, cutoff |-> cutoff,
                 removed |-> {index[k].publish_date : k \in DOMAIN index \ DOMAIN after},
                 kept |-> {after[k].publish_date : k \in DOMAIN after}]
    /\ lastIndex' = NoIndexCall
    /\ UNCHANGED <<runVars, articles, now, response>>

\* A day passes.
Tick ==
    /\ now < MaxNow
    /\ now' = now + 1
    /\ lastSweep' = NoSweep
    /\ lastIndex' = NoIndexCall
    /\ UNCHANGED <<runVars, articles, index, upserted, response>>

\* ---------------------------------------------------------- specifications
\* One run of main, with the index store open to the Articles the run built.
Next == Fetch \/ InitDriver \/ ProcessItem \/ Finally \/ IndexArticle
Spec == Init /\ [][Next]_vars

\* The index store on its own: index and sweep calls over the days.
InitStore ==
    /\ pc = "idle"
    /\ news_items = <<>>
    /\ driver = None
    /\ pos = 1
    /\ log = <<>>
    /\ quits = 0
    /\ raised = None
    /\ articles = StoreArticles
    /\ index = EmptyIndex
    /\ upserted = [l \in Links |-> {}]
    /\ now = 0
    /\ lastSweep = NoSweep
    /\ lastIndex = NoIndexCall
    /\ response = NoResponse
NextStore == IndexArticle \/ CleanupOldArticles \/ Tick
SpecStore == InitStore /\ [][NextStore]_vars

\* ------------------------------------------------------------------ claims
\* A run that got its driver and has returned.
RunEnded == pc = "done" /\ driver # None

\* A link without an http or https scheme.
InvalidLink(l) == ~StartsWith(l, HTTP) /\ ~StartsWith(l, HTTPS)

\* The documents of the index.
Documents == {index[k] : k \in DOMAIN index}

\* C1: in a run of main that got its driver, driver.quit() is called exactly
\* once, at the end of the run: never while items are still being handled,
\* and after every item of the feed has been handled, whichever items failed.
C1_SessionReleasedOnce ==
    /\ pc \in {"loop", "finally"} => quits = 0
    /\ \A i \in 1..Len(log) : log[i].quits = 0
    /\ RunEnded => quits = 1 /\ Len(log) = Len(news_items)

\* C1 witness: a finished run with one release in which one item was built
\* into an Article and another failed.
C1_Witness ==
    /\ RunEnded
    /\ quits = 1
    /\ \E i, j \in 1..Len(log) : log[i].built /\ ~log[j].built

\* C2: a failure at item N does not end the loop: the items are handled in
\* feed order, the loop goes on after each of them, every item has been
\* handled when the run ends, and no exception leaves main.
C2_FailureDoesNotStopRun ==
    /\ raised = None
    /\ \A i \in 1..Len(log) : log[i].pos = i
    /\ pc = "loop" => Len(log) = pos - 1 /\ pos <= Len(news_items)
    /\ RunEnded => Len(log) = Len(news_items)

\* C2 witness: a finished run over three items in which the second raised in
\* the per-item block and the first and third were built into Articles.
C2_Witness ==
    /\ RunEnded
    /\ Len(log) = 3
    /\ log[1].built
    /\ log[2].exc # None
    /\ log[3].built

\* C3: after a complete run the index holds one document for each item that
\* was resolved and normalised and none for the others, keyed by the link's
\* document id, with the extracted text and sentiment "unknown".
C3_RunIndexesResolved ==
    RunEnded =>
        /\ {d.link : d \in Documents} = {a.link : a \in articles}
        /\ \A a \in articles :
            /\ DocId(a.link) \in DOMAIN index
            /\ index[DocId(a.link)].content = a.content
            /\ index[DocId(a.link)].sentiment = "unknown"

\* C4: after any sequence of index calls the index holds exactly one
\* document for each link that was indexed, with the content of the latest
\* call for that link.
C4_OneDocumentPerLink ==
    \A l \in Links :
        upserted[l] # {} =>
            /\ Cardinality({k \in DOMAIN index : index[k].link = l}) = 1
            /\ \A k \in DOMAIN index : index[k].link = l => index[k].content \in upserted[l]

\* C5: two different links that were indexed have different document ids,
\* so neither call overwrote the document of the other.
C5_DistinctLinksDistinctIds ==
    \A l1, l2 \in Links :
        (l1 # l2 /\ upserted[l1] # {} /\ upserted[l2] # {}) => DocId(l1) # DocId(l2)

\* C6: a completed sweep leaves every document published within the last
\* ARTICLE_RETENTION_DAYS days in the index and removes every older one.
C6_SweepKeepsRetentionWindow ==
    (lastSweep.calls = 1 /\ lastSweep.ok) =>
        /\ \A d \in lastSweep.removed : d < now - ARTICLE_RETENTION_DAYS
        /\ \A d \in lastSweep.kept : d >= now - ARTICLE_RETENTION_DAYS

\* C7: a completed delete with cutoff c removes exactly the documents
\* published strictly before c and leaves the others as they were: a
\* document at c stays, and with no document before c nothing changes.  A
\* delete that raises changes nothing.
C7_DeleteStrictlyBefore ==
    [][lastSweep'.calls = 1 =>
        IF lastSweep'.ok
        THEN /\ DOMAIN index' =
                    {k \in DOMAIN index : index[k].publish_date >= lastSweep'.cutoff}
             /\ \A k \in DOMAIN index' : index'[k] = index[k]
        ELSE index' = index]_vars

\* C7 witness: a completed delete that removed the document of the day
\* before the cutoff and kept those of the cutoff day and of the day after.
C7_Witness ==
    /\ lastSweep.calls = 1
    /\ lastSweep.ok
    /\ lastSweep.cutoff - 1 \in lastSweep.removed
    /\ lastSweep.cutoff \in lastSweep.kept
    /\ lastSweep.cutoff + 1 \in lastSweep.kept

\* C8: an item whose link is invalid is never built into an Article, the
\* index never holds a document with an invalid link, and the run still
\* handles every item of the feed.
C8_InvalidLinkRejected ==
    /\ \A a \in articles \cup Documents : ~InvalidLink(a.link)
    /\ \A i \in 1..Len(log) :
        ("link" \in DOMAIN news_items[i] /\ InvalidLink(news_items[i].link)) => ~log[i].built
    /\ RunEnded => Len(log) = Len(news_items)

\* C8 witness: an item with an invalid link whose page gave text was
\* rejected by Article, and a later item of the run was built.
C8_Witness ==
    \E i, j \in 1..Len(log) :
        /\ i < j
        /\ "link" \in DOMAIN news_items[i]
        /\ InvalidLink(news_items[i].link)
        /\ log[i].exc = "ValidationError"
        /\ log[j].built

\* C9: when the driver cannot be created the run ends at once: no item is
\* resolved, normalised or indexed, quit is not called, no exception leaves.
C9_NoDriverNoProcessing ==
    (pc = "done" /\ news_items # <<>> /\ driver = None) =>
        /\ log = <<>>
        /\ articles = {}
        /\ index = EmptyIndex
        /\ quits = 0
        /\ raised = None

\* C9 witness: a run that fetched several items and ended without a driver.
C9_Witness ==
    /\ pc = "done"
    /\ Len(news_items) >= 2
    /\ driver = None

\* C10: every Article built and every document of the index has non-empty
\* content; an item whose page gave no text or empty text is not built.
C10_ContentNonEmpty ==
    /\ \A a \in articles \cup Documents : a.content # ""
    /\ \A i \in 1..Len(log) :
        (log[i].content.isNone \/ log[i].content.text = "") => ~log[i].built

\* C10 witness: a run in which one page gave empty text and was skipped,
\* another was built, and the index holds a document.
C10_Witness ==
    /\ \E i \in 1..Len(log) :
        log[i].resolved /\ ~log[i].content.isNone /\ log[i].content.text = ""
    /\ \E j \in 1..Len(log) : log[j].built
    /\ Documents # {}

\* C11: the fetch never raises: a network error, a non-2xx status, a body
\* that is no JSON and a JSON body without "results" each give the empty
\* list, and a "results" array is returned as it is, in feed order.
C11_FetchNeverRaises ==
    pc # "idle" =>
        /\ log = <<>> => raised = None
        /\ response.kind \in {"network_error", "http_error", "bad_json"} => news_items = <<>>
        /\ (response.kind = "json" /\ "results" \notin DOMAIN response.body) =>
                news_items = <<>>
        /\ (response.kind = "json" /\ "results" \in DOMAIN response.body) =>
                news_items = response.body.results

\* C11 witness: the endpoint answered with a non-2xx status and the run
\* ended with no items and no exception.
C11_Witness ==
    /\ pc = "done"
    /\ response.kind = "http_error"
    /\ news_items = <<>>
    /\ raised = None

\* C12: an index call whose write fails returns False after one write
\* attempt, lets no exception out and leaves the index as it was.
C12_FailedIndexCall ==
    [][(lastIndex'.calls = 1 /\ lastIndex'.returned # "True") =>
        /\ lastIndex'.returned = "False"
        /\ lastIndex'.exc = None
        /\ lastIndex'.attempts = 1
        /\ index' = index
        /\ upserted' = upserted]_vars

\* C12 witness: an index call that followed a failed one wrote its document.
C12_Witness ==
    /\ lastIndex.calls = 1
    /\ lastIndex.afterFailure
    /\ lastIndex.returned = "True"
    /\ lastIndex.attempts = 1
    /\ Documents # {}

\* C13: with no items fetched main returns at once: it never asks for a
\* driver, handles no item and calls quit zero times.
C13_NoItemsNoSession ==
    news_items = <<>> =>
        /\ pc \in {"idle", "done"}
        /\ driver = None
        /\ log = <<>>
        /\ quits = 0

\* C13 witness: a run whose feed body had no "results" has ended.
C13_Witness ==
    /\ pc = "done"
    /\ response.kind = "json"
    /\ "results" \notin DOMAIN response.body
    /\ news_items = <<>>

\* C14: the items are handled one after the other in feed order, each at
\* most once, and every resolve call is made with the driver of the run
\* before it is quit; once quit is called the run is over.
C14_SequentialSession ==
    /\ Len(log) <= Len(news_items)
    /\ \A i \in 1..Len(log) :
        /\ log[i].pos = i
        /\ log[i].resolved => (log[i].driver # None /\ log[i].quits = 0)
    /\ quits > 0 => pc = "done"

\* C14 witness: a finished run that resolved three items in a row and quit
\* the driver once.
C14_Witness ==
    /\ RunEnded
    /\ quits = 1
    /\ Len(log) = 3
    /\ \A i \in 1..Len(log) : log[i].resolved
====
